---- MODULE Spec2Model ----
(***************************************************************************)
(* robust_git (python3/robust_git.py): clone(), pull() and clean() and the  *)
(* supervised runner _Util.shellExecWithStuckCheck they are built on.       *)
(*                                                                          *)
(* One behaviour is one call of clone(args), pull(args) or clean(dir).      *)
(* The caller and the runner are one sequential Python thread (pc, rpc);    *)
(* the child process runs concurrently with it and talks to it through two  *)
(* pipes of bounded capacity.  Text is a sequence of one-character strings. *)
(* The interpreter runs with assertions enabled (no -O).                    *)
(***************************************************************************)
EXTENDS Integers, Sequences, FiniteSets, TLC

VARIABLES
    op,             \* which public function is called: "clone", "pull", "clean"
    args,           \* its positional arguments, a list
    pc,             \* where the caller is
    cmd,            \* argv of the child spawned last
    exc,            \* the exception that left the public function, if any
    nSpawn,         \* children spawned so far by this call
    events,         \* "spawn" / "sleep" (time.sleep(_RETRY_TIMEOUT)), in order
    nRetryable,     \* attempts that ended stuck or with 0 < returncode <= 128
    nOther,         \* attempts that were retried for any other reason
    rpc,            \* where the runner is inside shellExecWithStuckCheck / cmdCall
    registered,     \* selector.get_map(): the streams still registered
    res,            \* the list select() returned, the part not yet iterated
    rbuf,           \* what the blocking fileobj.read() in progress has read
    sStdout,        \* local sStdout (cmdCall: ret.stdout)
    sStderr,        \* local sStderr
    bStuck,         \* local bStuck
    echoStdout,     \* what this run wrote to sys.stdout
    echoStderr,     \* what this run wrote to sys.stderr
    nTerminate,     \* proc.terminate() calls of this run
    waited,         \* seconds the select() call in progress has waited
    graced,         \* this run slept the 1.0 s of line 182 / 131
    result,         \* how the last run ended: what it raised or that it returned
    child,          \* the child process and its two pipes
    idleElapsed     \* a full _STUCK_TIMEOUT of child silence has passed in this run

vars == <<op, args, pc, cmd, exc, nSpawn, events, nRetryable, nOther, rpc,
          registered, res, rbuf, sStdout, sStderr, bStuck, echoStdout,
          echoStderr, nTerminate, waited, graced, result, child, idleElapsed>>

callerVars == <<op, args, pc, cmd, exc, nSpawn, events, nRetryable, nOther>>
runnerVars == <<rpc, registered, res, rbuf, sStdout, sStderr, bStuck,
                echoStdout, echoStderr, nTerminate, waited, graced, result>>

----------------------------------------------------------------------------
(* Bounds of the model *)

MaxAttempts == 3        \* children one call may spawn
MaxWrite == 2           \* characters a child writes to one stream
PipeCap == 1            \* characters a pipe holds before write() blocks
TickSeconds == 30       \* seconds by which the time waited in select() advances

(* Program constants *)

_STUCK_TIMEOUT == 60
_RETRY_TIMEOUT == 1
SIGTERM == 15

----------------------------------------------------------------------------
(* Inputs *)

CR == "\r"
LF == "\n"

Streams == {"stdout", "stderr"}

\* what a child may write: plain output on stdout, the line ends of progress
\* text on stderr
Chars(s) == IF s = "stdout" THEN {"o"} ELSE {CR, LF}

\* exit(c) of the child, 0 <= c <= 255, around the 128 boundary
ExitCodes == {0, 1, 128, 129}

\* signals that may kill the child
Signals == {SIGTERM}

RebaseFlags == <<"-r", "--rebase", "--no-rebase">>

RECURSIVE SubLists(_)
\* the sub-lists of a list, order kept
SubLists(l) ==
    IF l = <<>> THEN {<<>>}
    ELSE LET rest == SubLists(Tail(l))
         IN  rest \cup {<<Head(l)>> \o r : r \in rest}

ArgLists == SubLists(RebaseFlags)

Elems(l) == {l[i] : i \in 1..Len(l)}


\* newline=None of the text-mode streams (universal_newlines=True): on input
\* "\r\n" and a lone "\r" are both translated to "\n"
RECURSIVE Translate(_)
Translate(t) ==
    IF t = <<>> THEN <<>>
    ELSE IF Head(t) = CR
         THEN IF Len(t) >= 2 /\ t[2] = LF
              THEN <<LF>> \o Translate(Tail(Tail(t)))
              ELSE <<LF>> \o Translate(Tail(t))
         ELSE <<Head(t)>> \o Translate(Tail(t))

\* str.rstrip(): trailing whitespace removed
RECURSIVE rstrip(_)
rstrip(t) ==
    IF t # <<>> /\ t[Len(t)] \in {CR, LF}
    THEN rstrip(SubSeq(t, 1, Len(t) - 1))
    ELSE t

----------------------------------------------------------------------------
(* Values *)

NoResult ==
    [kind |-> "none", returncode |-> 0, cmd |-> <<>>, stdout |-> <<>>,
     stderr |-> <<>>, timeout |-> 0]

\* _ProcessStuckError(cmd, timeout)
_ProcessStuckError(c, t) ==
    [kind |-> "_ProcessStuckError", returncode |-> 0, cmd |-> c,
     stdout |-> <<>>, stderr |-> <<>>, timeout |-> t]

\* subprocess.CalledProcessError(returncode, cmd, output, stderr)
CalledProcessError(rc, c, out, err) ==
    [kind |-> "CalledProcessError", returncode |-> rc, cmd |-> c,
     stdout |-> out, stderr |-> err, timeout |-> 0]

AssertionError ==
    [kind |-> "AssertionError", returncode |-> 0, cmd |-> <<>>,
     stdout |-> <<>>, stderr |-> <<>>, timeout |-> 0]

Returned == [NoResult EXCEPT !.kind = "return"]

NoChild ==
    [state |-> "none", returncode |-> 0, merged |-> FALSE,
     open |-> [s \in Streams |-> FALSE],
     pipe |-> [s \in Streams |-> <<>>],
     wrote |-> [s \in Streams |-> <<>>],
     wr |-> <<>>]

\* subprocess.Popen(..., stdout=PIPE, stderr=PIPE | STDOUT): a running child
\* with nothing written yet; merged: its stderr is its stdout pipe
NewChild(m) ==
    [NoChild EXCEPT !.state = "running", !.merged = m,
                    !.open = [s \in Streams |-> TRUE]]

\* the pipe the child's stream s writes into
Target(s) == IF child.merged THEN "stdout" ELSE s

\* some write end of pipe p is still open
PipeOpen(p) == \E s \in Streams : Target(s) = p /\ child.open[s]

\* the read end of pipe p is readable: data, or end-of-file
Ready(p) == child.pipe[p] # <<>> \/ ~PipeOpen(p)

----------------------------------------------------------------------------
(* The child process *)

\* the child calls write(s, c); the call returns once the pipe has room
ChildStartWrite(s, c) ==
    /\ child.state = "running"
    /\ child.wr = <<>>
    /\ child.open[s]
    /\ Len(child.wrote[s]) < MaxWrite
    /\ child' = [child EXCEPT !.wr = <<s, c>>]
    /\ UNCHANGED <<callerVars, runnerVars, idleElapsed>>

ChildCompleteWrite ==
    /\ child.state = "running"
    /\ child.wr # <<>>
    /\ LET s == child.wr[1]
           c == child.wr[2]
       IN  /\ Len(child.pipe[Target(s)]) < PipeCap
           /\ child' = [child EXCEPT !.wr = <<>>,
                                     !.pipe[Target(s)] = Append(@, c),
                                     !.wrote[s] = Append(@, c)]
    /\ UNCHANGED <<callerVars, runnerVars, idleElapsed>>

\* the child closes one of its streams and goes on running
ChildClose(s) ==
    /\ child.state = "running"
    /\ child.wr = <<>>
    /\ child.open[s]
    /\ child' = [child EXCEPT !.open[s] = FALSE]
    /\ UNCHANGED <<callerVars, runnerVars, idleElapsed>>

\* the child calls exit(c)
ChildExit(c) ==
    /\ child.state = "running"
    /\ child.wr = <<>>
    /\ child' = [child EXCEPT !.state = "exited", !.returncode = c,
                              !.open = [s \in Streams |-> FALSE]]
    /\ UNCHANGED <<callerVars, runnerVars, idleElapsed>>

\* a signal sent to the child (proc.terminate()'s SIGTERM, or one from outside
\* this program) kills it; Popen.returncode is then the negated signal number.
\* A child that catches or ignores the signal simply goes on with its other
\* steps.
ChildKilled(sig) ==
    /\ child.state = "running"
    /\ child' = [child EXCEPT !.state = "exited", !.returncode = -sig,
                              !.wr = <<>>,
                              !.open = [s \in Streams |-> FALSE]]
    /\ UNCHANGED <<callerVars, runnerVars, idleElapsed>>

ChildNext ==
    \/ \E s \in Streams : \E c \in Chars(s) : ChildStartWrite(s, c)
    \/ ChildCompleteWrite
    \/ \E s \in Streams : ChildClose(s)
    \/ \E c \in ExitCodes : ChildExit(c)
    \/ \E sig \in Signals : ChildKilled(sig)

----------------------------------------------------------------------------
(* _Util.shellExecWithStuckCheck(cmdList, envDict) *)

\* the orders in which select() may list the ready streams
Orders(S) ==
    {q \in [1..Cardinality(S) -> S] : \A s \in S : \E i \in DOMAIN q : q[i] = s}

StuckNotice == "Process stuck for 60 second(s), terminated.\n"

\* argv of the child of clone() / pull()
GitCommand ==
    IF op = "clone" THEN <<"/usr/bin/git", "clone">> \o args
    ELSE <<"/usr/bin/git", "pull", "--rebase">> \o args

\* what the caller does that the outside world sees: a child spawned with argv
\* a, a time.sleep(t) between two attempts
SpawnEvent(a) == [e |-> "spawn", t |-> 0, a |-> a]
SleepEvent(t) == [e |-> "sleep", t |-> t, a |-> <<>>]

\* lines 145-157: spawn the child, clear the locals, register both streams
Popen ==
    /\ pc = "loop"
    /\ nSpawn < MaxAttempts
    /\ pc' = "run"
    /\ cmd' = GitCommand
    /\ nSpawn' = nSpawn + 1
    /\ events' = Append(events, SpawnEvent(GitCommand))
    /\ child' = NewChild(FALSE)
    /\ rpc' = "select"
    /\ registered' = Streams
    /\ res' = <<>>
    /\ rbuf' = <<>>
    /\ sStdout' = <<>>
    /\ sStderr' = <<>>
    /\ bStuck' = FALSE
    /\ echoStdout' = <<>>
    /\ echoStderr' = <<>>
    /\ nTerminate' = 0
    /\ waited' = 0
    /\ graced' = FALSE
    /\ result' = NoResult
    /\ idleElapsed' = FALSE
    /\ UNCHANGED <<op, args, exc, nRetryable, nOther>>

\* lines 158-159: select() returns the streams that are ready
Select ==
    /\ rpc = "select"
    /\ registered # {}
    /\ LET ready == {s \in registered : Ready(s)}
       IN  /\ ready # {}
           /\ \E q \in Orders(ready) : res' = q
    /\ rpc' = "read"
    /\ waited' = 0
    /\ UNCHANGED <<callerVars, registered, rbuf, sStdout, sStderr, bStuck,
                   echoStdout, echoStderr, nTerminate, graced, result, child,
                   idleElapsed>>

\* line 159: TickSeconds more pass inside select(_STUCK_TIMEOUT) with no
\* registered stream ready
SelectWait ==
    /\ rpc = "select"
    /\ registered # {}
    /\ \A s \in registered : ~Ready(s)
    /\ waited < _STUCK_TIMEOUT
    /\ waited' = waited + TickSeconds
    /\ UNCHANGED <<callerVars, rpc, registered, res, rbuf, sStdout, sStderr,
                   bStuck, echoStdout, echoStderr, nTerminate, graced, result,
                   child, idleElapsed>>

\* lines 160-164 without the break of line 164: after proc.terminate() the
\* loop polls again
SelectTimeout_NoBreak ==
    /\ rpc = "select"
    /\ registered # {}
    /\ \A s \in registered : ~Ready(s)
    /\ waited >= _STUCK_TIMEOUT
    /\ waited' = 0
    /\ bStuck' = TRUE
    /\ echoStderr' = Append(echoStderr, StuckNotice)
    /\ nTerminate' = nTerminate + 1
    /\ rpc' = "select"
    /\ idleElapsed' = TRUE
    /\ UNCHANGED <<callerVars, registered, res, rbuf, sStdout, sStderr,
                   echoStdout, graced, result, child>>

\* lines 159-164: no stream became ready for _STUCK_TIMEOUT seconds
SelectTimeout ==
    /\ rpc = "select"
    /\ registered # {}
    /\ \A s \in registered : ~Ready(s)
    /\ waited >= _STUCK_TIMEOUT
    /\ waited' = 0
    /\ bStuck' = TRUE
    /\ echoStderr' = Append(echoStderr, StuckNotice)
    /\ nTerminate' = nTerminate + 1
    /\ rpc' = "communicate"
    /\ idleElapsed' = TRUE
    /\ UNCHANGED <<callerVars, registered, res, rbuf, sStdout, sStderr,
                   echoStdout, graced, result, child>>

\* line 166, fileobj.read(): read everything up to end-of-file; while the
\* write end is open the call blocks, taking what arrives
ReadFill ==
    /\ rpc = "read"
    /\ LET s == Head(res)
       IN  /\ child.pipe[s] # <<>>
           /\ rbuf' = rbuf \o child.pipe[s]
           /\ child' = [child EXCEPT !.pipe[s] = <<>>]
    /\ UNCHANGED <<callerVars, rpc, registered, res, sStdout, sStderr, bStuck,
                   echoStdout, echoStderr, nTerminate, waited, graced, result,
                   idleElapsed>>

\* line 166: _STUCK_TIMEOUT seconds pass with the runner blocked in read() and
\* the child, alive, writing nothing
ReadBlockedTimeout ==
    /\ rpc = "read"
    /\ child.state = "running"
    /\ child.pipe[Head(res)] = <<>>
    /\ PipeOpen(Head(res))
    /\ ~idleElapsed
    /\ idleElapsed' = TRUE
    /\ UNCHANGED <<callerVars, runnerVars, child>>

\* lines 173-175 with sys.stdout.write(data) in the stderr branch
ReadReturn_StderrToStdout ==
    /\ rpc = "read"
    /\ LET s == Head(res)
           data == Translate(rbuf)
       IN  /\ child.pipe[s] = <<>>
           /\ ~PipeOpen(s)
           /\ registered' = IF data = <<>> THEN registered \ {s} ELSE registered
           /\ sStdout' = IF s = "stdout" THEN sStdout \o data ELSE sStdout
           /\ echoStdout' = echoStdout \o data
           /\ sStderr' = IF s = "stderr" THEN sStderr \o data ELSE sStderr
           /\ echoStderr' = echoStderr
    /\ rbuf' = <<>>
    /\ res' = Tail(res)
    /\ rpc' = IF Tail(res) = <<>> THEN "select" ELSE "read"
    /\ UNCHANGED <<callerVars, bStuck, nTerminate, waited, graced, result, child,
                   idleElapsed>>

\* lines 166-177: read() returns at end-of-file; empty data unregisters the
\* stream, anything else is accumulated and echoed
ReadReturn ==
    /\ rpc = "read"
    /\ LET s == Head(res)
           data == Translate(rbuf)
       IN  /\ child.pipe[s] = <<>>
           /\ ~PipeOpen(s)
           /\ registered' = IF data = <<>> THEN registered \ {s} ELSE registered
           /\ sStdout' = IF s = "stdout" THEN sStdout \o data ELSE sStdout
           /\ echoStdout' = IF s = "stdout" THEN echoStdout \o data ELSE echoStdout
           /\ sStderr' = IF s = "stderr" THEN sStderr \o data ELSE sStderr
           /\ echoStderr' = IF s = "stderr" THEN echoStderr \o data ELSE echoStderr
    /\ rbuf' = <<>>
    /\ res' = Tail(res)
    /\ rpc' = IF Tail(res) = <<>> THEN "select" ELSE "read"
    /\ UNCHANGED <<callerVars, bStuck, nTerminate, waited, graced, result, child,
                   idleElapsed>>

\* line 158: the selector's map is empty, the loop ends
LoopExit ==
    /\ rpc = "select"
    /\ registered = {}
    /\ rpc' = "communicate"
    /\ UNCHANGED <<callerVars, registered, res, rbuf, sStdout, sStderr, bStuck,
                   echoStdout, echoStderr, nTerminate, waited, graced, result, child,
                   idleElapsed>>

\* line 179, proc.communicate(): what is still in the pipes is read and dropped
CommunicateDrain(s) ==
    /\ rpc = "communicate"
    /\ child.pipe[s] # <<>>
    /\ child' = [child EXCEPT !.pipe[s] = <<>>]
    /\ UNCHANGED <<callerVars, runnerVars, idleElapsed>>

\* line 179 without the wait for the child: the runner goes on as soon as the
\* pipes are drained
Communicate_NoWait ==
    /\ rpc = "communicate"
    /\ \A s \in Streams : child.pipe[s] = <<>>
    /\ rpc' = "classify"
    /\ UNCHANGED <<callerVars, registered, res, rbuf, sStdout, sStderr, bStuck,
                   echoStdout, echoStderr, nTerminate, waited, graced, result, child,
                   idleElapsed>>

\* line 179: communicate() returns when both pipes are at end-of-file and the
\* child has exited; it has no timeout
Communicate ==
    /\ rpc = "communicate"
    /\ child.state = "exited"
    /\ \A s \in Streams : child.pipe[s] = <<>>
    /\ rpc' = "classify"
    /\ UNCHANGED <<callerVars, registered, res, rbuf, sStdout, sStderr, bStuck,
                   echoStdout, echoStderr, nTerminate, waited, graced, result, child,
                   idleElapsed>>

\* line 181 as "if proc.returncode >= 128"
GraceSleep_From128 ==
    /\ rpc = "classify"
    /\ graced' = (child.returncode >= 128)
    /\ rpc' = "raise"
    /\ UNCHANGED <<callerVars, registered, res, rbuf, sStdout, sStderr, bStuck,
                   echoStdout, echoStderr, nTerminate, waited, result, child,
                   idleElapsed>>

\* lines 181-182: time.sleep(1.0) when the return code is above 128
GraceSleep ==
    /\ rpc = "classify"
    /\ graced' = (child.returncode > 128)
    /\ rpc' = "raise"
    /\ UNCHANGED <<callerVars, registered, res, rbuf, sStdout, sStderr, bStuck,
                   echoStdout, echoStderr, nTerminate, waited, result, child,
                   idleElapsed>>

\* lines 183-186 with the two tests in the other order: the return code is
\* looked at before bStuck
Outcome_ReturnCodeFirst ==
    IF child.returncode # 0
    THEN CalledProcessError(child.returncode, cmd, sStdout, sStderr)
    ELSE IF bStuck THEN _ProcessStuckError(cmd, _STUCK_TIMEOUT)
         ELSE Returned

\* line 185 as "if proc.returncode > 0": a child killed by a signal passes
\* for a success
Outcome_PositiveOnly ==
    IF bStuck THEN _ProcessStuckError(cmd, _STUCK_TIMEOUT)
    ELSE IF child.returncode > 0
         THEN CalledProcessError(child.returncode, cmd, sStdout, sStderr)
         ELSE Returned

\* lines 183-186: what shellExecWithStuckCheck raises, or that it returns
Outcome ==
    IF bStuck THEN _ProcessStuckError(cmd, _STUCK_TIMEOUT)
    ELSE IF child.returncode # 0
         THEN CalledProcessError(child.returncode, cmd, sStdout, sStderr)
         ELSE Returned

\* lines 183-186: leave shellExecWithStuckCheck
Finish ==
    /\ rpc = "raise"
    /\ result' = Outcome
    /\ rpc' = "idle"
    /\ pc' = "handle"
    /\ UNCHANGED <<op, args, cmd, exc, nSpawn, events, nRetryable, nOther,
                   registered, res, rbuf, sStdout, sStderr, bStuck, echoStdout,
                   echoStderr, nTerminate, waited, graced, child, idleElapsed>>

RunnerNext ==
    \/ Popen
    \/ Select
    \/ SelectWait
    \/ SelectTimeout
    \/ ReadFill
    \/ ReadBlockedTimeout
    \/ ReadReturn
    \/ LoopExit
    \/ \E s \in Streams : CommunicateDrain(s)
    \/ Communicate
    \/ GraceSleep
    \/ Finish

----------------------------------------------------------------------------
(* _Util.cmdCall(cmd, *kargs) *)

\* argv of the two children of clean(dir_name)
CleanCommand ==
    IF pc = "clean1" THEN <<"/usr/bin/git", "-C", args[1], "reset", "--hard">>
    ELSE <<"/usr/bin/git", "-C", args[1], "clean", "-xfd">>

\* lines 126-128, subprocess.run(): spawn the child, its stderr on its stdout
CmdCallRun ==
    /\ pc \in {"clean1", "clean2"}
    /\ rpc = "idle"
    /\ cmd' = CleanCommand
    /\ nSpawn' = nSpawn + 1
    /\ events' = Append(events, SpawnEvent(CleanCommand))
    /\ child' = NewChild(TRUE)
    /\ rpc' = "run"
    /\ rbuf' = <<>>
    /\ sStdout' = <<>>
    /\ echoStdout' = <<>>
    /\ graced' = FALSE
    /\ result' = NoResult
    /\ UNCHANGED <<op, args, pc, exc, nRetryable, nOther, registered, res,
                   sStderr, bStuck, echoStderr, nTerminate, waited, idleElapsed>>

\* lines 126-128: subprocess.run() reads the pipe as data arrives
CmdCallDrain ==
    /\ rpc = "run"
    /\ child.pipe["stdout"] # <<>>
    /\ rbuf' = rbuf \o child.pipe["stdout"]
    /\ child' = [child EXCEPT !.pipe["stdout"] = <<>>]
    /\ UNCHANGED <<callerVars, rpc, registered, res, sStdout, sStderr, bStuck,
                   echoStdout, echoStderr, nTerminate, waited, graced, result,
                   idleElapsed>>

\* cmdCall with "if ret.returncode > 0" for line 132: a child killed by a
\* signal passes for a success
CmdCallFinish_PositiveOnly ==
    /\ rpc = "run"
    /\ child.state = "exited"
    /\ child.pipe["stdout"] = <<>>
    /\ LET out == Translate(rbuf)
           rc == child.returncode
       IN  /\ sStdout' = out
           /\ graced' = (rc > 128)
           /\ echoStdout' = IF rc > 0 THEN out \o <<LF>> ELSE echoStdout
           /\ result' = IF rc > 0 THEN CalledProcessError(rc, cmd, out, <<>>)
                        ELSE [Returned EXCEPT !.stdout = rstrip(out)]
           /\ exc' = IF rc > 0 THEN CalledProcessError(rc, cmd, out, <<>>)
                     ELSE exc
           /\ pc' = IF rc > 0 THEN "raised"
                    ELSE IF pc = "clean1" THEN "clean2" ELSE "returned"
    /\ rbuf' = <<>>
    /\ rpc' = "idle"
    /\ UNCHANGED <<op, args, cmd, nSpawn, events, nRetryable, nOther,
                   registered, res, sStderr, bStuck, echoStderr, nTerminate, waited,
                   child, idleElapsed>>

\* lines 126-135: the child has exited: sleep above 128, print and raise on a
\* non-zero return code, else return; clean() goes on to its next line
CmdCallFinish ==
    /\ rpc = "run"
    /\ child.state = "exited"
    /\ child.pipe["stdout"] = <<>>
    /\ LET out == Translate(rbuf)
           rc == child.returncode
       IN  /\ sStdout' = out
           /\ graced' = (rc > 128)
           /\ echoStdout' = IF rc # 0 THEN out \o <<LF>> ELSE echoStdout
           /\ result' = IF rc # 0 THEN CalledProcessError(rc, cmd, out, <<>>)
                        ELSE [Returned EXCEPT !.stdout = rstrip(out)]
           /\ exc' = IF rc # 0 THEN CalledProcessError(rc, cmd, out, <<>>)
                     ELSE exc
           /\ pc' = IF rc # 0 THEN "raised"
                    ELSE IF pc = "clean1" THEN "clean2" ELSE "returned"
    /\ rbuf' = <<>>
    /\ rpc' = "idle"
    /\ UNCHANGED <<op, args, cmd, nSpawn, events, nRetryable, nOther,
                   registered, res, sStderr, bStuck, echoStderr, nTerminate, waited,
                   child, idleElapsed>>

cmdCall ==
    \/ CmdCallRun
    \/ CmdCallDrain
    \/ CmdCallFinish

----------------------------------------------------------------------------
(* The public functions *)

\* line 61: assert not any(x not in args for x in ["-r", "--rebase", "--no-rebase"])
PullAssertion ==
    ~ \E i \in 1..Len(RebaseFlags) : RebaseFlags[i] \notin Elems(args)

\* lines 44-46: clone(*args) enters its loop
clone ==
    /\ pc = "call"
    /\ op = "clone"
    /\ pc' = "loop"
    /\ UNCHANGED <<op, args, cmd, exc, nSpawn, events, nRetryable, nOther,
                   runnerVars, child, idleElapsed>>

\* lines 59-63: pull(*args) checks its arguments and enters its loop
pull ==
    /\ pc = "call"
    /\ op = "pull"
    /\ IF PullAssertion
       THEN pc' = "loop" /\ exc' = exc
       ELSE pc' = "raised" /\ exc' = AssertionError
    /\ UNCHANGED <<op, args, cmd, nSpawn, events, nRetryable, nOther,
                   runnerVars, child, idleElapsed>>

\* line 76: clean(dir_name)
clean ==
    /\ pc = "call"
    /\ op = "clean"
    /\ pc' = "clean1"
    /\ UNCHANGED <<op, args, cmd, exc, nSpawn, events, nRetryable, nOther,
                   runnerVars, child, idleElapsed>>

\* lines 48-49 / 65-66: the runner returned: break
Break ==
    /\ pc = "handle"
    /\ result.kind = "return"
    /\ pc' = "returned"
    /\ UNCHANGED <<op, args, cmd, exc, nSpawn, events, nRetryable, nOther,
                   runnerVars, child, idleElapsed>>

\* the handler of _ProcessStuckError without its time.sleep(_RETRY_TIMEOUT)
ExceptStuck_NoSleep ==
    /\ pc = "handle"
    /\ result.kind = "_ProcessStuckError"
    /\ pc' = "loop"
    /\ nRetryable' = nRetryable + 1
    /\ UNCHANGED <<op, args, cmd, exc, nSpawn, events, nOther, runnerVars,
                   child, idleElapsed>>

\* lines 50-51 / 67-68: except _ProcessStuckError
ExceptStuck ==
    /\ pc = "handle"
    /\ result.kind = "_ProcessStuckError"
    /\ pc' = "sleep"
    /\ nRetryable' = nRetryable + 1
    /\ UNCHANGED <<op, args, cmd, exc, nSpawn, events, nOther, runnerVars,
                   child, idleElapsed>>

\* the handler of CalledProcessError without the test of line 53: every
\* failure is retried
ExceptCalled_AlwaysRetry ==
    /\ pc = "handle"
    /\ result.kind = "CalledProcessError"
    /\ pc' = "sleep"
    /\ nRetryable' = IF result.returncode > 0 THEN nRetryable + 1
                     ELSE nRetryable
    /\ nOther' = IF result.returncode > 0 THEN nOther ELSE nOther + 1
    /\ UNCHANGED <<op, args, cmd, exc, nSpawn, events, runnerVars, child,
                   idleElapsed>>

\* the handler of CalledProcessError with "e.returncode >= 128" for line 53
ExceptCalled_From128 ==
    /\ pc = "handle"
    /\ result.kind = "CalledProcessError"
    /\ IF result.returncode >= 128
       THEN /\ pc' = "raised"
            /\ exc' = result
            /\ UNCHANGED <<nRetryable, nOther>>
       ELSE /\ pc' = "sleep"
            /\ exc' = exc
            /\ nRetryable' = IF result.returncode > 0 THEN nRetryable + 1
                             ELSE nRetryable
            /\ nOther' = IF result.returncode > 0 THEN nOther ELSE nOther + 1
    /\ UNCHANGED <<op, args, cmd, nSpawn, events, runnerVars, child,
                   idleElapsed>>

\* lines 52-56 / 69-73: except subprocess.CalledProcessError as e
ExceptCalled ==
    /\ pc = "handle"
    /\ result.kind = "CalledProcessError"
    /\ IF result.returncode > 128
       THEN /\ pc' = "raised"
            /\ exc' = result
            /\ UNCHANGED <<nRetryable, nOther>>
       ELSE /\ pc' = "sleep"
            /\ exc' = exc
            /\ nRetryable' = IF result.returncode > 0 THEN nRetryable + 1
                             ELSE nRetryable
            /\ nOther' = IF result.returncode > 0 THEN nOther ELSE nOther + 1
    /\ UNCHANGED <<op, args, cmd, nSpawn, events, runnerVars, child,
                   idleElapsed>>

\* lines 51, 56 / 68, 73: time.sleep(_RETRY_TIMEOUT), then the loop again
RetrySleep ==
    /\ pc = "sleep"
    /\ events' = Append(events, SleepEvent(_RETRY_TIMEOUT))
    /\ pc' = "loop"
    /\ UNCHANGED <<op, args, cmd, exc, nSpawn, nRetryable, nOther, runnerVars,
                   child, idleElapsed>>

CallerNext ==
    \/ clone
    \/ pull
    \/ clean
    \/ Break
    \/ ExceptStuck
    \/ ExceptCalled
    \/ RetrySleep
    \/ cmdCall

----------------------------------------------------------------------------
(* The specification *)

\* the calls checked: clone(url), pull(any sub-list of the flags), clean(dir)
Calls ==
    {<<"clone", <<"url">>>>, <<"clean", <<"repo">>>>}
        \cup {<<"pull", a>> : a \in ArgLists}

Init ==
    /\ \E c \in Calls : op = c[1] /\ args = c[2]
    /\ pc = "call"
    /\ cmd = <<>>
    /\ exc = NoResult
    /\ nSpawn = 0
    /\ events = <<>>
    /\ nRetryable = 0
    /\ nOther = 0
    /\ rpc = "idle"
    /\ registered = {}
    /\ res = <<>>
    /\ rbuf = <<>>
    /\ sStdout = <<>>
    /\ sStderr = <<>>
    /\ bStuck = FALSE
    /\ echoStdout = <<>>
    /\ echoStderr = <<>>
    /\ nTerminate = 0
    /\ waited = 0
    /\ graced = FALSE
    /\ result = NoResult
    /\ child = NoChild
    /\ idleElapsed = FALSE

ProgramNext == CallerNext \/ RunnerNext

Next == ProgramNext \/ ChildNext

Spec == Init /\ [][Next]_vars

\* the interpreter keeps executing the program: a step of the caller or the
\* runner that stays possible is eventually taken.  Nothing is assumed of the
\* child.
FairSpec == Spec /\ WF_vars(ProgramNext)

----------------------------------------------------------------------------
(* Properties *)

RetryOps == {"clone", "pull"}

\* an attempt of clone() / pull() has ended and no other has begun
AttemptOver == op \in RetryOps /\ nSpawn > 0 /\ rpc = "idle"

\* what is seen of a call that made k retries and then one more attempt
RetryTrace(k) ==
    [i \in 1..(2 * k + 1) |->
        IF i % 2 = 1 THEN SpawnEvent(GitCommand) ELSE SleepEvent(_RETRY_TIMEOUT)]

\* C1: when k attempts of clone() / pull() have failed retryably (stuck, or
\* exit code 1..128) and attempt k+1 ends with exit code 0, the next step of
\* the call is a normal return, and what it did is: spawn, then k times
\* (sleep _RETRY_TIMEOUT, spawn); k+1 children, k sleeps.
C1_RetryThenSuccess ==
    [][(pc = "handle" /\ result.kind = "return" /\ nOther = 0)
         => /\ pc' = "returned"
            /\ exc' = NoResult
            /\ nSpawn' = nRetryable + 1
            /\ events' = RetryTrace(nRetryable)]_vars

C1_Witness ==
    /\ op = "clone"
    /\ pc = "returned"
    /\ nRetryable = 2
    /\ nOther = 0
    /\ Len(events) = 5

\* C2: after an attempt that was not declared stuck and whose child exited
\* with a code above 128, clone() / pull() raise at once: the call is never
\* found sleeping or looping again, nothing follows the spawn of that
\* attempt, and the error raised carries that code and the attempt's
\* captured stdout and stderr.
C2_Above128Raised ==
    (AttemptOver /\ ~bStuck /\ child.returncode > 128)
        => /\ pc \in {"handle", "raised"}
           /\ events[Len(events)] = SpawnEvent(GitCommand)
           /\ pc = "raised" =>
                exc = CalledProcessError(child.returncode, cmd, sStdout, sStderr)

C2_Witness ==
    /\ op = "clone"
    /\ pc = "raised"
    /\ ~bStuck
    /\ exc.kind = "CalledProcessError"
    /\ exc.returncode = 129
    /\ exc.stdout # <<>>
    /\ exc.stderr # <<>>

\* C3 (as claimed): after an attempt that was not declared stuck and whose
\* child was killed by a signal, clone() / pull() propagate the failure at
\* once and never retry.
C3_SignalDeathPropagated ==
    (AttemptOver /\ ~bStuck /\ child.returncode < 0)
        => pc \in {"handle", "raised"}

\* C4 (as claimed): whenever _STUCK_TIMEOUT seconds have passed in which the
\* child, alive and with both streams open, wrote nothing, the run has
\* declared the child stuck.
C4_SilenceDeclaredStuck ==
    (idleElapsed /\ child.state = "running"
        /\ \A s \in Streams : child.open[s])
        => bStuck

\* C5 (as claimed): once stuck has been detected in a run, the run ends by
\* raising _ProcessStuckError, whatever the child does.
C5_StuckRunEnds ==
    (pc = "run" /\ bStuck) ~> (result.kind = "_ProcessStuckError")

\* C6: clone() / pull() never surface a retryable failure: after an attempt
\* that ended stuck or with exit code 1..128 the call is about to retry (it
\* has neither raised nor returned), no _ProcessStuckError ever leaves the
\* call, and the only errors that do are pull()'s AssertionError and a
\* CalledProcessError with a return code above 128.
C6_RetryableAbsorbed ==
    op \in RetryOps =>
        /\ (AttemptOver /\ (bStuck \/ child.returncode \in 1..128))
              => pc \in {"handle", "sleep", "loop"}
        /\ exc.kind # "_ProcessStuckError"
        /\ pc = "raised" =>
              \/ op = "pull" /\ exc = AssertionError /\ nSpawn = 0
              \/ exc.kind = "CalledProcessError" /\ exc.returncode > 128

C6_Witness ==
    /\ op = "pull"
    /\ pc = "raised"
    /\ nRetryable = 2
    /\ exc.kind = "CalledProcessError"

\* C7 (as claimed): when the drain loop of a run has ended without stuck
\* detection, the text accumulated for each stream is exactly what the child
\* wrote to that stream, and that is what a CalledProcessError carries.
C7_CaptureIsWhatWasWritten ==
    (op \in RetryOps /\ rpc = "raise" /\ ~bStuck)
        => /\ sStdout = child.wrote["stdout"]
           /\ sStderr = child.wrote["stderr"]
           /\ Outcome.kind = "CalledProcessError" =>
                /\ Outcome.stdout = child.wrote["stdout"]
                /\ Outcome.stderr = child.wrote["stderr"]

\* how many of the three rebase-mode flags are among args
NFlags == Cardinality({i \in 1..Len(RebaseFlags) : RebaseFlags[i] \in Elems(args)})

\* C8 (as claimed): pull() with none of the rebase-mode flags, or with more
\* than one, fails at once with the precondition fault, no child spawned.
C8_BadFlagsFault ==
    (op = "pull" /\ NFlags # 1 /\ pc # "call")
        => pc = "raised" /\ exc = AssertionError /\ nSpawn = 0

\* C9 (as claimed): pull() with exactly one rebase-mode flag raises no
\* precondition fault and goes on to its retry loop, where it spawns
\* git pull --rebase <args>.
C9_OneFlagAccepted ==
    (op = "pull" /\ NFlags = 1 /\ pc # "call")
        => /\ exc # AssertionError
           /\ pc # "raised"
           /\ nSpawn > 0 =>
                events[1] = SpawnEvent(<<"/usr/bin/git", "pull", "--rebase">> \o args)

ResetHard == <<"/usr/bin/git", "-C", args[1], "reset", "--hard">>
CleanXfd == <<"/usr/bin/git", "-C", args[1], "clean", "-xfd">>

\* C10: clean() spawns reset --hard and then clean -xfd, each at most once
\* and with no sleep or retry; it runs the second only after the first
\* returned 0; a child that ended with a non-zero return code (exit code or
\* signal death) makes clean() raise CalledProcessError with that code, and
\* clean() returns only after both commands returned 0.
C10_CleanOneShot ==
    op = "clean" =>
        /\ events \in {<<>>, <<SpawnEvent(ResetHard)>>,
                       <<SpawnEvent(ResetHard), SpawnEvent(CleanXfd)>>}
        /\ (pc = "clean2" /\ rpc = "idle") =>
              /\ nSpawn = 1
              /\ result.kind = "return"
              /\ child.returncode = 0
        /\ (nSpawn > 0 /\ rpc = "idle" /\ child.returncode # 0)
              => /\ pc = "raised"
                 /\ exc.kind = "CalledProcessError"
                 /\ exc.returncode = child.returncode
                 /\ exc.cmd = events[Len(events)].a
        /\ pc = "raised" => (rpc = "idle" /\ child.returncode # 0)
        /\ pc = "returned" =>
              /\ nSpawn = 2
              /\ child.returncode = 0
              /\ exc = NoResult

C10_Witness ==
    /\ op = "clean"
    /\ pc = "raised"
    /\ nSpawn = 2
    /\ child.returncode < 0


\* C11: a run of clone() / pull() ends (returning, raising CalledProcessError
\* or raising _ProcessStuckError) only after its child has exited, so
\* whenever no run is in progress the child is dead, and a new child is
\* spawned only while no child is running: at most one child is alive.
C11_OneChildAtATime ==
    /\ [](AttemptOver => child.state = "exited")
    /\ [][(op \in RetryOps /\ nSpawn' = nSpawn + 1)
            => child.state # "running"]_vars

C11_Witness ==
    /\ op = "clone"
    /\ pc = "run"
    /\ nSpawn = 2
    /\ nRetryable = 1
    /\ child.state = "running"


\* what of the text written to sys.stderr came from the child
ChildEcho(t) == SelectSeq(t, LAMBDA x : x # StuckNotice)

\* C12: at every point of a run of clone() / pull(), and after it however it
\* ended, the text echoed to sys.stdout is the text accumulated in sStdout
\* and the child's text echoed to sys.stderr is the text accumulated in
\* sStderr: each chunk goes to the parent's stream of the same name, only
\* there, in read order.
C12_EchoIsCapture ==
    (op \in RetryOps /\ nSpawn > 0)
        => /\ echoStdout = sStdout
           /\ ChildEcho(echoStderr) = sStderr

C12_Witness ==
    /\ op = "clone"
    /\ rpc = "raise"
    /\ bStuck
    /\ sStderr # <<>>
    /\ echoStderr = sStderr \o <<StuckNotice>>


\* the runner is blocked in read() on one stream, whose write end the child
\* still holds open, while the child is blocked in write() on the other
\* stream, whose pipe is full
MutualBlock ==
    /\ rpc = "read"
    /\ child.state = "running"
    /\ child.wr # <<>>
    /\ child.wr[1] # Head(res)
    /\ Len(child.pipe[child.wr[1]]) >= PipeCap
    /\ child.pipe[Head(res)] = <<>>
    /\ child.open[Head(res)]

\* C13 (as claimed): whatever the child writes to its two streams and in
\* whatever order, runner and child are never blocked on each other, the
\* runner waiting on one stream while the child is blocked writing to the
\* other.
C13_NeverBlockedOnEachOther == ~MutualBlock


\* C14 (as claimed): what the child has written is echoed once it is
\* available, without waiting for the child to close the stream or to exit:
\* the runner never holds text it has read from a stream, not yet echoed,
\* while the child stays alive and silent with that stream open for a full
\* _STUCK_TIMEOUT.
C14_EchoIsLive ==
    (op \in RetryOps /\ rpc = "read" /\ idleElapsed) => rbuf = <<>>


\* C15: in one run proc.terminate() is called at most once, exactly when the
\* run is declared stuck, and that happens only in a select() call that has
\* waited _STUCK_TIMEOUT seconds with no registered stream ready, after
\* which the loop polls no more; a select() call that returns a ready stream
\* terminates nothing and declares nothing, so a run whose every poll
\* returns a ready stream raises no _ProcessStuckError; and every select()
\* call starts its wait from zero.
C15_TerminateOnceOnEmptyPoll ==
    /\ [](/\ nTerminate <= 1
          /\ bStuck <=> nTerminate = 1
          /\ nTerminate = 1 => rpc \notin {"select", "read"}
          /\ result.kind = "_ProcessStuckError" => nTerminate = 1
          /\ rpc # "select" => waited = 0)
    /\ [][nTerminate' = nTerminate + 1
            => /\ rpc = "select"
               /\ waited >= _STUCK_TIMEOUT
               /\ \A s \in registered : ~Ready(s)]_vars
    /\ [][(rpc = "select" /\ rpc' = "read")
            => /\ waited' = 0
               /\ nTerminate' = nTerminate
               /\ bStuck' = bStuck]_vars

C15_Witness ==
    /\ op = "clone"
    /\ rpc = "raise"
    /\ nTerminate = 1
    /\ sStdout # <<>>
    /\ child.returncode = -SIGTERM


\* C16: a run of clone() / pull() in which stuck was detected ends, whatever
\* return code the child then has, by raising _ProcessStuckError; the caller
\* raises nothing and does not return: it sleeps _RETRY_TIMEOUT once and is
\* back at the top of its loop.
C16_StuckAlwaysRetried ==
    (AttemptOver /\ bStuck)
        => /\ result = _ProcessStuckError(cmd, _STUCK_TIMEOUT)
           /\ exc = NoResult
           /\ pc \in {"handle", "sleep", "loop"}
           /\ pc \in {"handle", "sleep"}
                => events[Len(events)] = SpawnEvent(GitCommand)
           /\ pc = "loop"
                => /\ events[Len(events)] = SleepEvent(_RETRY_TIMEOUT)
                   /\ events[Len(events) - 1] = SpawnEvent(GitCommand)

C16_Witness ==
    /\ op = "pull"
    /\ pc = "loop"
    /\ bStuck
    /\ rpc = "idle"
    /\ child.returncode = 129
    /\ graced


\* C17: clone() / pull() have returned, or their last run has reported
\* success, only if in that run both streams were read to end-of-stream and
\* unregistered, stuck was not detected, nothing was terminated, and the
\* child exited with return code 0; after a run that was stuck or whose
\* child ended with any non-zero return code (exit code or signal death) no
\* success is reported.
C17_SuccessMeansExitZero ==
    (op \in RetryOps /\ (pc = "returned" \/ result.kind = "return"))
        => /\ ~bStuck
           /\ nTerminate = 0
           /\ registered = {}
           /\ child.state = "exited"
           /\ child.returncode = 0
           /\ \A s \in Streams : child.pipe[s] = <<>> /\ ~child.open[s]
           /\ exc = NoResult

C17_Witness ==
    /\ op = "clone"
    /\ pc = "returned"
    /\ nOther = 1
    /\ sStdout # <<>>
    /\ sStderr # <<>>


\* C18: shellExecWithStuckCheck and cmdCall make their 1.0 s pause exactly
\* when the child's return code is above 128, and not for 0, for 1..128 or
\* for a negative code; the pause comes after the child has exited and
\* before anything is raised or returned, never while the child is being
\* served; and after a pause in a run that was not stuck the caller raises:
\* the command is not spawned again.
C18_GraceIffAbove128 ==
    /\ rpc \in {"select", "read", "communicate", "classify", "run"} => ~graced
    /\ (nSpawn > 0 /\ rpc \in {"raise", "idle"})
          => (graced <=> child.returncode > 128)
    /\ rpc = "raise" => (child.state = "exited" /\ result = NoResult)
    /\ (graced /\ ~bStuck /\ rpc = "idle") => pc \in {"handle", "raised"}

C18_Witness ==
    /\ op = "clone"
    /\ rpc = "raise"
    /\ ~bStuck
    /\ graced
    /\ child.returncode = 129

====
